---- MODULE Spec2Model ----
(***************************************************************************)
(* Model of the warehouse sync core of suhedges/WarehouseManagement:       *)
(*   - the three-way merge engine        (src/utils/merge-records.ts)      *)
(*   - the remote blob client            (src/utils/github-sync.ts)        *)
(*   - the sync orchestrator             (src/hooks/warehouse-store.ts)    *)
(*   - the auth store                    (src/hooks/auth-store.ts)         *)
(*                                                                         *)
(* Specifications:                                                         *)
(*   MergeSpec   : mergeRecords applied to bounded base/local/remote       *)
(*                 inputs                                                  *)
(*   StampedSpec : mergeRecords on records that carry their stamps         *)
(*   Spec        : the orchestrator, the blob client, the remote store and *)
(*                 a second device of the same identity                    *)
(*   LiveSpec    : Spec with the scheduling the runtime guarantees         *)
(*   SessionSpec : the providers from their mount, login and logout, the   *)
(*                 pull on login and pushes, over per-identity files and   *)
(*                 snapshots                                               *)
(*   RequestSpec : one makeGitHubRequest call against any responses        *)
(*   UploadSpec  : one uploadData call, with or without a currentSha       *)
(*   ResetSpec   : Spec with the Reset Sync Snapshot button                *)
(*   UnionSpec   : mergeRecords on inputs of up to two record ids          *)
(*   TwoWaySpec  : the two-way last-writer-wins mergeRecords               *)
(*   SnapshotSpec: Spec started with any stored value under the BASE key   *)
(*   DownloadSpec: SessionSpec over remote files whose first parse fails   *)
(***************************************************************************)
EXTENDS Integers, Sequences, FiniteSets, TLC

(***************************************************************************)
(* Values.  A JS object is a function from its keys to values; a key that  *)
(* is absent and a key that holds undefined read the same (obj[key] is     *)
(* undefined), so both are the value Undef.                                *)
(***************************************************************************)
Undef == "undefined"
\* "no such record" (find() returned undefined), comparable with records.
NoRec == [absent |-> TRUE]

\* JS booleans stored in record fields (one sort with Undef, so === compares them).
JsTrue == "true"
JsFalse == "false"

\* ------------------------------------------------------------------------
\* Part 1: the merge engine (src/utils/merge-records.ts)
\* ------------------------------------------------------------------------

\* Largest record version drawn for the inputs of mergeRecords.
MaxVersion == 3

MergeKeys == {"id", "version", "updatedAt", "updatedBy", "deleted", "name", "location"}

\* Iteration order of the merged keys (the code follows key insertion order,
\* which every record of the model shares).
FieldOrder == <<"updatedAt", "updatedBy", "deleted", "name", "location">>

\* updatedAt strings (ISO timestamps as toISOString writes them): "t1" is
\* earlier than "t2", "t2" earlier than "t3".
Timestamps == {"t1", "t2"}

\* Date.parse on the strings of the model (milliseconds, scaled).
DateParse(s) ==
  CASE s = "t1"  -> 1
    [] s = "t2"  -> 2
    [] s = "t3"  -> 3
    [] OTHER     -> 0

\* l.updatedAt ? Date.parse(l.updatedAt) : 0
ParsedOrZero(rec) == IF rec.updatedAt = Undef THEN 0 ELSE DateParse(rec.updatedAt)

MergeNames == {"A", "B", "C"}

\* Records without updatedBy and location (both keys absent).
MergeRecordSet(id) ==
  { [id |-> id, version |-> v, updatedAt |-> u, updatedBy |-> Undef, deleted |-> d,
     name |-> n, location |-> Undef] :
      v \in 1..MaxVersion, u \in Timestamps \cup {Undef},
      d \in {Undef, JsFalse, JsTrue}, n \in MergeNames }

\* Live records as the mutation paths write them: every edit raises version and
\* stamps updatedAt and updatedBy.  A base record is version 1 stamped at t1,
\* an edited one has a later version and a later stamp.
MergeUsers == {"u1", "u2", "u3"}
MergeLocations == {"L1", "L2", "L3"}

StampedBaseSet(id) ==
  { [id |-> id, version |-> 1, updatedAt |-> "t1", updatedBy |-> w, deleted |-> Undef,
     name |-> n, location |-> c] :
      w \in MergeUsers, n \in MergeNames, c \in MergeLocations }

StampedEditSet(id) ==
  { [id |-> id, version |-> v, updatedAt |-> u, updatedBy |-> w, deleted |-> Undef,
     name |-> n, location |-> c] :
      v \in 2..MaxVersion, u \in {"t2", "t3"}, w \in MergeUsers,
      n \in MergeNames, c \in MergeLocations }

\* a ?? b
Nullish(a, b) == IF a = Undef THEN b ELSE a

\* !!rec.deleted
IsDeleted(rec) == rec.deleted = JsTrue

\* array.find(r => r.id === id)
RECURSIVE FindFrom(_, _, _)
FindFrom(coll, id, i) ==
  IF i > Len(coll) THEN NoRec
  ELSE IF coll[i].id = id THEN coll[i]
  ELSE FindFrom(coll, id, i + 1)

Find(coll, id) == FindFrom(coll, id, 1)

\* obj ? obj[key] : undefined
ValOf(rec, key) == IF rec = NoRec THEN Undef ELSE rec[key]

\* rec?.version || 0
VersionOrZero(rec) == IF rec = NoRec THEN 0 ELSE rec.version

Max2(a, b) == IF a >= b THEN a ELSE b

\* candidates.reduce((acc, cur) => cur.version > acc.version ? cur : acc)
RECURSIVE ReduceWinner(_, _, _)
ReduceWinner(cands, acc, i) ==
  IF i > Len(cands) THEN acc
  ELSE ReduceWinner(cands, IF cands[i].version > acc.version THEN cands[i] ELSE acc, i + 1)

\* [b, l, r].filter(Boolean)
Candidates(b, l, r) == SelectSeq(<<b, l, r>>, LAMBDA x : x # NoRec)

ChooseTombstone(b, l, r) ==
  LET cands == Candidates(b, l, r)
  IN IF Len(cands) = 0 THEN NoRec
     ELSE LET winner == ReduceWinner(cands, cands[1], 2)
              anyNewerAlive ==
                \E i \in 1..Len(cands) :
                   ~IsDeleted(cands[i]) /\ cands[i].version > winner.version
          IN IF IsDeleted(winner) /\ ~anyNewerAlive
             THEN [winner EXCEPT !.deleted = JsTrue]
             ELSE NoRec

\* Which branch of the per-field merge applies (lines 57-79).
FieldCase(b, l, r, key) ==
  LET baseVal   == ValOf(b, key)
      localVal  == ValOf(l, key)
      remoteVal == ValOf(r, key)
  IN IF baseVal = remoteVal /\ localVal # baseVal THEN "local"
     ELSE IF baseVal = localVal /\ remoteVal # baseVal THEN "remote"
     ELSE IF l # NoRec /\ r # NoRec /\ localVal # baseVal
             /\ remoteVal # baseVal /\ localVal # remoteVal
       THEN (IF ParsedOrZero(l) = ParsedOrZero(r) THEN "tie"
             ELSE IF ParsedOrZero(l) > ParsedOrZero(r) THEN "localNewer"
             ELSE "remoteNewer")
     ELSE "default"

\* A per-field merge that ignores the timestamps: local ?? remote ?? base.
MergedFieldValueLocalFirst(b, l, r, key) ==
  Nullish(ValOf(l, key), Nullish(ValOf(r, key), ValOf(b, key)))

MergedFieldValue(b, l, r, key) ==
  LET c == FieldCase(b, l, r, key)
  IN CASE c \in {"local", "tie", "localNewer"} -> ValOf(l, key)
       [] c \in {"remote", "remoteNewer"}      -> ValOf(r, key)
       [] OTHER -> Nullish(ValOf(l, key), Nullish(ValOf(r, key), ValOf(b, key)))

ConflictField(b, l, r, key) ==
  [name |-> key, base |-> ValOf(b, key), local |-> ValOf(l, key), remote |-> ValOf(r, key)]

\* recordConflicts.push(...) happens in the exact-tie branch only (line 71).
RecordsConflict(b, l, r, key) == FieldCase(b, l, r, key) = "tie"

RECURSIVE FieldConflictsFrom(_, _, _, _)
FieldConflictsFrom(b, l, r, i) ==
  IF i > Len(FieldOrder) THEN <<>>
  ELSE (IF RecordsConflict(b, l, r, FieldOrder[i])
        THEN <<ConflictField(b, l, r, FieldOrder[i])>> ELSE <<>>)
       \o FieldConflictsFrom(b, l, r, i + 1)

\* record.updatedAt (lines 84-86)
MergedUpdatedAt(b, l, r) ==
  IF ValOf(l, "updatedAt") # Undef /\ ValOf(r, "updatedAt") # Undef
  THEN (IF DateParse(l.updatedAt) > DateParse(r.updatedAt) THEN l.updatedAt ELSE r.updatedAt)
  ELSE Nullish(ValOf(l, "updatedAt"), Nullish(ValOf(r, "updatedAt"), ValOf(b, "updatedAt")))

\* A merged version that is only the maximum of the inputs.
FinalVersionNoBump(b, l, r) ==
  Max2(VersionOrZero(b), Max2(VersionOrZero(l), VersionOrZero(r)))

\* finalVersion = Math.max(b?.version || 0, l?.version || 0, r?.version || 0) + 1
FinalVersion(b, l, r) ==
  Max2(VersionOrZero(b), Max2(VersionOrZero(l), VersionOrZero(r))) + 1

\* The record built field by field for one id (lines 42-88).
MergeFields(id, b, l, r) ==
  [k \in MergeKeys |->
     CASE k = "id"        -> id
       [] k = "version"   -> FinalVersion(b, l, r)
       [] k = "updatedAt" -> MergedUpdatedAt(b, l, r)
       [] OTHER           -> MergedFieldValue(b, l, r, k)]

\* The merged record of one id (lines 31-40, 88).
MergeOne(id, b, l, r) ==
  LET tombstone == ChooseTombstone(b, l, r)
  IN IF tombstone # NoRec THEN tombstone ELSE MergeFields(id, b, l, r)

\* The conflict entries of one id (lines 89-96): none for a tombstone.
ConflictsOne(id, b, l, r, recordType) ==
  IF ChooseTombstone(b, l, r) # NoRec THEN <<>>
  ELSE LET fs == FieldConflictsFrom(b, l, r, 1)
       IN IF Len(fs) > 0
          THEN << [recordId |-> id, recordType |-> recordType, fields |-> fs] >>
          ELSE <<>>

\* ids: a Set filled from base, then local, then remote (lines 26-29).
RECURSIVE AddIds(_, _, _)
AddIds(ids, coll, i) ==
  IF i > Len(coll) THEN ids
  ELSE AddIds(IF \E j \in 1..Len(ids) : ids[j] = coll[i].id THEN ids
              ELSE Append(ids, coll[i].id), coll, i + 1)

\* An id list that keeps every occurrence: base's ids, then local's, then
\* remote's.
UnionIdsKeepingAll(base, local, remote) ==
  [i \in 1..Len(base) |-> base[i].id] \o [i \in 1..Len(local) |-> local[i].id]
    \o [i \in 1..Len(remote) |-> remote[i].id]

UnionIds(base, local, remote) == AddIds(AddIds(AddIds(<<>>, base, 1), local, 1), remote, 1)

RECURSIVE Flatten(_, _)
Flatten(seqs, i) == IF i > Len(seqs) THEN <<>> ELSE seqs[i] \o Flatten(seqs, i + 1)

mergeRecords(base, local, remote, recordType) ==
  LET ids == UnionIds(base, local, remote)
  IN [ records   |-> [i \in 1..Len(ids) |->
                        MergeOne(ids[i], Find(base, ids[i]), Find(local, ids[i]),
                                 Find(remote, ids[i]))],
       conflicts |-> Flatten([i \in 1..Len(ids) |->
                        ConflictsOne(ids[i], Find(base, ids[i]), Find(local, ids[i]),
                                     Find(remote, ids[i]), recordType)], 1) ]

\* The inputs and the result of mergeRecords under MergeSpec.
VARIABLES mBase, mLocal, mRemote, mResult

mvars == <<mBase, mLocal, mRemote, mResult>>

\* One call of makeGitHubRequest (github-sync.ts:308-337): where the call is,
\* its attempt argument, the last response, and as observers the requests
\* sent, the delays waited (ms) and whether every response so far carried a
\* rate-limit signal.  resetPc tells whether resetSyncSnapshot
\* (warehouse-store.ts:438-446) has run ("idle": not yet; "done": it has, and
\* no push has read BASE since; "read": a push has read BASE since).
VARIABLES rqPc, rqAttempt, rqResponse, rqSent, rqWaits, rqPersistent, resetPc

rqVars == <<rqPc, rqAttempt, rqResponse, rqSent, rqWaits, rqPersistent>>

\* One call of uploadData(data, currentSha) (github-sync.ts:399-424): where
\* the call is, its data argument, its sha variable (currentSha at first),
\* the remote file, the PUTs it sent and the sha it returned.
VARIABLES upPc, upData, upSha, upRemote, upPuts, upResult

upVars == <<upPc, upData, upSha, upRemote, upPuts, upResult>>

\* what the orchestrator's own steps leave alone
sideVars == <<mvars, rqVars, upVars, resetPc>>

NotMerged == [pending |-> TRUE]

\* ------------------------------------------------------------------------
\* Part 2: the sync orchestrator (src/hooks/warehouse-store.ts), the blob
\* client (src/utils/github-sync.ts) and the remote store
\* ------------------------------------------------------------------------

\* const SYNC_MIN_INTERVAL_MS = 5000
SYNC_MIN_INTERVAL_MS == 5000

\* Granularity of the clock: time advances in steps of TickMs.
TickMs == 2500

\* Number of local mutations (create, update, soft-delete) in one behaviour.
MaxMutations == 2

\* saveData calls that can be awaiting AsyncStorage at once.
MaxSaves == 2
MaxSessionMutations == 1
MaxIdentityChanges == 2

\* user?.username ?? 'local' (no user switch in this model: one identity)
NoUser == "none"
Users == {"alice"}
Identities == {"local"} \cup Users

\* what user?.username ?? 'local' evaluates to for a value of the auth state
UsernameOr(u) == IF u = NoUser THEN "local" ELSE u

VARIABLES
  \* auth-store: the user state (NoUser: null) and loadUser's place
  user, authPc,
  \* the githubSync singleton's username field
  username,
  \* warehouse-store: wasLoggedInRef, initializeData's place, pullOnLogin's
  \* place, what its downloadData returned, and the username its pending
  \* request or snapshot write was issued with
  wasLoggedInRef, initPc, pullPc, pullDoc, pullAddr,
  \* observers: pullRemoteOnLogin calls since the last change of the user
  \* state, and the logins and logouts so far
  pulls, identityChanges

sessVars == <<user, authPc, username, wasLoggedInRef, initPc, pullPc, pullDoc,
              pullAddr, pulls, identityChanges>>

\* currentStoreId / currentUser of a render: user?.username ?? 'local'
CurrentUser == UsernameOr(user)

\* addWarehouse(name) and updateWarehouse(id, {name}) arguments
NewNames == {"A"}
UpdateNames == {"B"}

Min2(a, b) == IF a <= b THEN a ELSE b

\* A warehouse record as the mutation paths build it.  updatedAt is left out:
\* no decision of the orchestrator or the blob client reads it, and every
\* mutation that stamps it also raises version.
NewWarehouse(id, name) ==
  [id |-> id, name |-> name, version |-> 1, updatedBy |-> CurrentUser,
   storeId |-> CurrentUser, deleted |-> Undef]

\* updateWarehouse: map over prev, the owner's record gets data and version + 1
UpdatedWarehouses(w, id, name) ==
  [i \in 1..Len(w) |->
     IF w[i].id = id /\ w[i].storeId = CurrentUser
     THEN [w[i] EXCEPT !.name = name, !.version = w[i].version + 1,
                       !.updatedBy = CurrentUser,
                       !.storeId = Nullish(w[i].storeId, CurrentUser)]
     ELSE w[i]]

\* A soft delete that marks the record without raising its version.
DeletedWarehousesNoBump(w, id) ==
  [i \in 1..Len(w) |->
     IF w[i].id = id /\ w[i].storeId = CurrentUser
     THEN [w[i] EXCEPT !.deleted = JsTrue, !.updatedBy = CurrentUser]
     ELSE w[i]]

\* deleteWarehouse: the owner's record becomes a tombstone with version + 1
DeletedWarehouses(w, id) ==
  [i \in 1..Len(w) |->
     IF w[i].id = id /\ w[i].storeId = CurrentUser
     THEN [w[i] EXCEPT !.deleted = JsTrue, !.version = w[i].version + 1,
                       !.updatedBy = CurrentUser]
     ELSE w[i]]

\* warehouses.filter(w => !w.deleted)
PurgedWarehouses(w) == SelectSeq(w, LAMBDA x : x.deleted # JsTrue)

\* warehouses.filter(w => (w.storeId ?? 'local') === currentUser && !w.deleted)
WarehousesToPush(w, currentUser) ==
  SelectSeq(w, LAMBDA x : Nullish(x.storeId, "local") = currentUser /\ x.deleted # JsTrue)

\* const data: WarehouseFile = { meta: { schemaVersion: 1 }, warehouses, products }
\* (the products array goes through the same code as warehouses; it stays
\* empty in this model)
WarehouseFile(w) == [meta |-> [schemaVersion |-> 1], warehouses |-> w, products |-> <<>>]

\* Keys that always hold a number (never compared with Undef).
NumericKeys == {"id", "version"}

\* sanitizeForJson on an object: the keys holding undefined are dropped
SanitizeObject(rec) ==
  [k \in {x \in DOMAIN rec : x \in NumericKeys \/ rec[x] # Undef} |-> rec[k]]

sanitizeForJson(doc) ==
  [meta |-> doc.meta,
   warehouses |-> [i \in 1..Len(doc.warehouses) |-> SanitizeObject(doc.warehouses[i])],
   products |-> doc.products]

\* stableStringify: the text with every object's defined keys in sorted order
\* and arrays in their own order; the text is represented by the structure it
\* denotes (keys of a function carry no order, undefined keys are dropped).
stableStringify(doc) ==
  [text |-> [meta |-> doc.meta,
             warehouses |-> [i \in 1..Len(doc.warehouses) |-> SanitizeObject(doc.warehouses[i])],
             products |-> doc.products]]

\* The version token of the store: the blob SHA, a hash of the content.
ShaOf(text) == [blob |-> text]

\* null sha / absent remote file / absent BASE snapshot
NoSha == [nosha |-> TRUE]
Absent == [absent |-> TRUE]
NoBase == [nobase |-> TRUE]
NoDoc == [nodoc |-> TRUE]

\* Documents a second device of the same identity writes to the shared file.
OtherDeviceTexts ==
  { stableStringify(WarehouseFile(<< NewWarehouse(id, "X") >>)) : id \in {9} }

\* A file another installation of a user left in the store: one record, with
\* or without the storeId field.
RemoteRecord(owner, storeId) ==
  [id |-> 9, name |-> "X", version |-> 1, updatedBy |-> owner, storeId |-> storeId,
   deleted |-> Undef]
RemoteTexts(owner) ==
  { stableStringify(WarehouseFile(<< RemoteRecord(owner, sid) >>)) : sid \in {Undef, owner} }

\* A file whose content JSON.parse rejects also after the "undefined" repair.
CorruptText == [text |-> [corrupt |-> TRUE]]

\* The keys of a Warehouse record; a key the text does not hold reads undefined.
RecordKeys == {"id", "name", "version", "updatedBy", "storeId", "deleted"}
ReviveObject(obj) == [k \in RecordKeys |-> IF k \in DOMAIN obj THEN obj[k] ELSE Undef]

\* JSON.parse of a file's text that isWarehouseFile accepts
ParseJson(text) ==
  [meta |-> text.text.meta,
   warehouses |-> [i \in 1..Len(text.text.warehouses) |->
                     ReviveObject(text.text.warehouses[i])],
   products |-> text.text.products]

\* a || b
OrElse(a, b) == IF a = Undef \/ a = "" THEN b ELSE a

\* remote.warehouses.map(w => ({ ...w, storeId: w.storeId ?? (w.updatedBy || 'local') }))
NormalizedRemoteWarehouses(w) ==
  [i \in 1..Len(w) |->
     [w[i] EXCEPT !.storeId = Nullish(w[i].storeId, OrElse(w[i].updatedBy, "local"))]]

VARIABLES
  \* React state of the provider
  warehouses, syncStatus, githubConfig,
  \* refs: isPerformingSyncRef, pendingSyncPromise (0: null, else the promise),
  \* pendingSyncTimeout (time left), lastSyncRef (time elapsed since, capped)
  isPerformingSyncRef, pendingSyncPromise, timerLeft, sinceLastSync,
  \* the run closure (performSyncNow of the render performSync was called in:
  \* its warehouses and githubConfig), the place of the running push and the
  \* sha it sends; capUser: the closure's currentUser; addr: the username the
  \* blob client's pending request or snapshot access was issued with
  pc, capW, capUser, capConfig, putSha, addr,
  \* environment: connectivity, the remote files (text) by the identity in
  \* their path, the BASE snapshots in AsyncStorage by the identity in their key; reliable: in this run the network stays reachable, every
  \* request is answered and no other device writes
  online, dataFiles, baseSnapshots, reliable,
  \* saveData calls awaiting AsyncStorage; effects of the last render to flush
  savePending, effectDue,
  \* observers (no action's guard or update of program state reads them):
  \* performSyncNow executions in flight, promises some caller awaits, whether
  \* a call was handed the pending promise, how the running or last run ended,
  \* the GETs and PUTs it sent, whether the current collections' document
  \* equalled BASE's when it built its payload, time since the last run ended
  \* (capped), local mutations applied, and the mutations not yet in any push
  \* payload: all of them, those the current collections hold, those the run
  \* closure holds
  inFlight, awaited, joined, lastRun, reqGets, reqPuts, localWasBase, sinceAttempt,
  mutCount, unpushed, inclNow, capIncl

reactVars == <<warehouses, syncStatus, githubConfig>>
refVars == <<isPerformingSyncRef, pendingSyncPromise, timerLeft, sinceLastSync>>
runVars == <<pc, capW, capUser, capConfig, putSha, addr>>
envVars == <<online, dataFiles, baseSnapshots, reliable>>
asyncVars == <<savePending, effectDue>>
mutVars == <<mutCount, unpushed, inclNow>>
obsVars == <<inFlight, awaited, joined, lastRun, reqGets, reqPuts, localWasBase,
             sinceAttempt, mutVars, capIncl>>
ovars == <<reactVars, refVars, runVars, envVars, asyncVars, obsVars, sessVars>>

\* the remote file at dataFilePath and the snapshot at baseSnapshotKey, as the
\* getters of the blob client resolve them (github-sync.ts:261-267)
remote == dataFiles[username]
baseSnap == baseSnapshots[username]

NoTimer == -1

\* The provider after initializeData and loadUser completed with nobody
\* logged in: the blob client addresses the identity 'local'.
Loaded ==
  /\ user = NoUser
  /\ authPc = "done"
  /\ username = "local"
  /\ wasLoggedInRef = FALSE
  /\ initPc = "done"
  /\ pullPc = "idle"
  /\ pullDoc = NoDoc
  /\ pullAddr = "local"
  /\ pulls = 0
  /\ identityChanges = 0

\* the orchestrator's refs and state at the first render
FirstRender ==
  /\ warehouses = <<>>
  /\ syncStatus = "synced"
  /\ githubConfig \in BOOLEAN
  /\ isPerformingSyncRef = FALSE
  /\ pendingSyncPromise = 0
  /\ timerLeft = NoTimer
  /\ sinceLastSync = SYNC_MIN_INTERVAL_MS
  /\ pc = "idle"
  /\ capW = <<>>
  /\ capUser = "local"
  /\ capConfig = FALSE
  /\ putSha = NoSha
  /\ addr = "local"
  /\ online = TRUE
  /\ reliable \in BOOLEAN
  /\ savePending = 0
  /\ effectDue = FALSE
  /\ inFlight = 0
  /\ awaited = {}
  /\ joined = FALSE
  /\ lastRun = "none"
  /\ reqGets = 0
  /\ reqPuts = 0
  /\ localWasBase = FALSE
  /\ sinceAttempt = SYNC_MIN_INTERVAL_MS
  /\ mutCount = 0
  /\ unpushed = {}
  /\ inclNow = {}
  /\ capIncl = {}

\* no BASE snapshot is stored for any identity
Mounted == FirstRender /\ baseSnapshots = [i \in Identities |-> NoBase]

OrchInit ==
  /\ Mounted
  /\ Loaded
  /\ dataFiles = [i \in Identities |-> Absent]

\* ---- performSync (warehouse-store.ts:140-170) ---------------------------

\* The variables a performSync call or a run's entry or end may change.
runObs == <<inFlight, lastRun, reqGets, reqPuts, localWasBase>>
syncTouched == <<pendingSyncPromise, timerLeft, sinceLastSync, pc, capW, capUser, capConfig,
                 capIncl, awaited, joined, runObs, sinceAttempt>>

\* A performSync that never joins the pending promise.
ReturnsPendingNever == FALSE

\* if (pendingSyncPromise.current) return pendingSyncPromise.current
ReturnsPending == pendingSyncPromise # 0

\* if (elapsed >= SYNC_MIN_INTERVAL_MS), elapsed = Date.now() - lastSyncRef.current
ElapsedEnough == sinceLastSync >= SYNC_MIN_INTERVAL_MS

\* Identity of a newly created promise: one no caller and no ref still holds.
NewPromise == IF pendingSyncPromise = 1 \/ 1 \in awaited THEN 2 ELSE 1

\* The pending promise settles: .finally clears the ref, and every caller
\* that holds this promise sees its outcome.
Settle ==
  /\ pendingSyncPromise' = 0
  /\ awaited' = awaited \ {pendingSyncPromise}
  /\ joined' = FALSE

\* performSyncNow is entered with a configured remote and reaches its first await
EnterRun ==
  /\ pc' = "netstate"
  /\ inFlight' = inFlight + 1
  /\ lastRun' = "none"
  /\ reqGets' = 0
  /\ reqPuts' = 0
  /\ localWasBase' = FALSE

\* 'GitHub not configured, skipping push': performSyncNow returns at once and
\* run() stamps lastSyncRef
SkipRun ==
  /\ sinceLastSync' = 0
  /\ sinceAttempt' = 0
  /\ lastRun' = "unconfigured"
  /\ UNCHANGED <<pc, inFlight, reqGets, reqPuts, localWasBase>>

\* performSyncNow returns or throws; run() stamps lastSyncRef only when it
\* returned (line 151 follows the await); then the promise settles.
EndRun(how, tag) ==
  /\ pc' = "idle"
  /\ inFlight' = inFlight - 1
  /\ sinceLastSync' = IF how = "resolved" THEN 0 ELSE sinceLastSync
  /\ sinceAttempt' = 0
  /\ lastRun' = tag
  /\ Settle

\* performSync of a render whose currentUser is given
performSyncIn(currentUser) ==
  IF ReturnsPending
  THEN /\ awaited' = awaited \cup {pendingSyncPromise}
       /\ joined' = TRUE
       /\ UNCHANGED <<pendingSyncPromise, timerLeft, sinceLastSync, pc, capW, capUser, capConfig,
                      capIncl, runObs, sinceAttempt>>
  ELSE /\ capW' = warehouses
       /\ capUser' = currentUser
       /\ capConfig' = githubConfig
       /\ capIncl' = inclNow
       /\ joined' = FALSE
       /\ IF ElapsedEnough
          THEN \* run() at once: performSyncNow is entered
               /\ timerLeft' = NoTimer
               /\ IF githubConfig
                  THEN /\ EnterRun
                       /\ pendingSyncPromise' = NewPromise
                       /\ awaited' = awaited \cup {NewPromise}
                       /\ UNCHANGED <<sinceLastSync, sinceAttempt>>
                  ELSE \* the promise settles before any other call can see it
                       /\ SkipRun
                       /\ UNCHANGED <<pendingSyncPromise, awaited>>
          ELSE \* setTimeout(run, SYNC_MIN_INTERVAL_MS - elapsed)
               /\ timerLeft' = SYNC_MIN_INTERVAL_MS - sinceLastSync
               /\ pendingSyncPromise' = NewPromise
               /\ awaited' = awaited \cup {NewPromise}
               /\ UNCHANGED <<sinceLastSync, pc, runObs, sinceAttempt>>

performSync == performSyncIn(CurrentUser)

\* The deferred run fires with the closure captured when it was scheduled.
TimerFire ==
  /\ ~effectDue
  /\ UNCHANGED <<sideVars, sessVars>>
  /\ timerLeft = 0
  /\ timerLeft' = NoTimer
  /\ IF capConfig
     THEN /\ EnterRun
          /\ UNCHANGED <<pendingSyncPromise, awaited, joined, sinceLastSync, sinceAttempt>>
     ELSE /\ SkipRun
          /\ Settle
  /\ UNCHANGED <<reactVars, isPerformingSyncRef, capW, capUser, capConfig, capIncl, putSha, addr,
                 envVars, asyncVars, mutVars>>

\* ---- performSyncNow (warehouse-store.ts:105-138) ------------------------

\* The document pushLocalOnly builds from the arrays performSyncNow filters
\* out of its closure's warehouses.
PushData == WarehouseFile(WarehousesToPush(capW, capUser))

\* desiredText of uploadData
DesiredText == stableStringify(sanitizeForJson(PushData))

\* What AsyncStorage can hold under baseSnapshotKey besides nothing and a
\* payload setBaseSnapshot wrote: a text JSON.parse rejects; JSON that lacks
\* the document shape, bare or inside a { data, sha } payload; a bare
\* document without payload. A stored text is represented by the value it
\* denotes.
UnparsableSnapshot == [unparsable |-> TRUE]
IllShapedJson == [other |-> 1]
IllShapedPayload == [data |-> IllShapedJson, sha |-> NoSha]
BareDocument == WarehouseFile(<<>>)
StoredSnapshots ==
  {NoBase, UnparsableSnapshot, IllShapedJson, IllShapedPayload, BareDocument}

\* isWarehouseFile(v) on an object
isWarehouseFile(v) == {"meta", "warehouses", "products"} \subseteq DOMAIN v

\* getBaseSnapshot on the stored value: null for no text and for a text
\* safeParseJson falls back on; the payload's data and sha when the parsed
\* value has both; otherwise the parsed value itself as data, with sha null
getBaseSnapshot(stored) ==
  IF stored = NoBase \/ stored = UnparsableSnapshot
  THEN NoBase
  ELSE IF "data" \in DOMAIN stored /\ "sha" \in DOMAIN stored
  THEN [data |-> stored.data, sha |-> stored.sha]
  ELSE [data |-> stored, sha |-> NoSha]

\* stableStringify(sanitizeForJson(base.data)) for whatever the snapshot holds
SnapshotText(data) ==
  IF isWarehouseFile(data) THEN stableStringify(sanitizeForJson(data)) ELSE [text |-> data]

\* pushLocalOnly's no-op test (github-sync.ts:486-491)
NoOpPush(data, base) ==
  /\ base # NoBase
  /\ stableStringify(sanitizeForJson(data)) = SnapshotText(base.data)

\* A performSyncNow that takes the network for reachable whatever its state.
ReachableAlways == TRUE

\* networkState.isConnected && networkState.isInternetReachable !== false
Reachable == online

\* await Network.getNetworkStateAsync() resolves
NetStateResolved ==
  /\ ~effectDue
  /\ UNCHANGED <<sideVars, sessVars>>
  /\ pc = "netstate"
  /\ IF ~Reachable
     THEN \* 'No network connection, push postponed'
          /\ syncStatus' = "pending"
          /\ effectDue' = (syncStatus # "pending")
          /\ EndRun("resolved", "offline")
          /\ UNCHANGED <<isPerformingSyncRef, unpushed, inclNow, capIncl, localWasBase,
                         addr>>
     ELSE \* the payload is built and pushLocalOnly is called
          /\ isPerformingSyncRef' = TRUE
          /\ syncStatus' = "syncing"
          /\ effectDue' = (syncStatus # "syncing")
          /\ unpushed' = unpushed \ capIncl
          /\ inclNow' = inclNow \ capIncl
          /\ capIncl' = {}
          /\ localWasBase' = NoOpPush(WarehouseFile(WarehousesToPush(warehouses, CurrentUser)),
                                            getBaseSnapshot(baseSnap))
          /\ pc' = "getbase"
          /\ addr' = username
          /\ UNCHANGED <<inFlight, sinceLastSync, sinceAttempt, lastRun,
                         pendingSyncPromise, awaited, joined>>
  /\ UNCHANGED <<warehouses, githubConfig, timerLeft, capW, capUser, capConfig, putSha,
                 envVars, savePending, mutCount, reqGets, reqPuts>>

\* purgeDeletedRecords up to its first await: setWarehouses(purged) from the
\* closure's warehouses; the render starts saveData and flushes the effects.
PurgeBegins ==
  /\ warehouses' = PurgedWarehouses(capW)
  /\ inclNow' = capIncl
  /\ savePending' = Min2(savePending + 1, MaxSaves)
  /\ effectDue' = TRUE
  /\ pc' = "purge"

\* the push throws: catch sets 'error', finally clears the flag, run rejects
FailRun(tag) ==
  /\ syncStatus' = "error"
  /\ effectDue' = (syncStatus # "error")
  /\ isPerformingSyncRef' = FALSE
  /\ EndRun("rejected", tag)

\* await this.getBaseSnapshot() resolves
BaseSnapshotRead ==
  /\ ~effectDue
  /\ UNCHANGED <<mvars, rqVars, upVars, sessVars>>
  /\ resetPc' = IF resetPc = "done" THEN "read" ELSE resetPc
  /\ pc = "getbase"
  /\ IF NoOpPush(PushData, getBaseSnapshot(baseSnapshots[addr]))
     THEN /\ PurgeBegins
          /\ lastRun' = "noop"
          /\ UNCHANGED <<reqGets, addr>>
     ELSE \* uploadData(data, undefined): no sha given, getRemoteFile is requested
          /\ pc' = "getremote"
          /\ reqGets' = reqGets + 1
          /\ addr' = username
          /\ UNCHANGED <<warehouses, inclNow, savePending, effectDue, lastRun>>
  /\ UNCHANGED <<syncStatus, githubConfig, refVars, capW, capUser, capConfig, putSha,
                 envVars, inFlight, awaited, joined, reqPuts, localWasBase, sinceAttempt,
                 mutCount, unpushed, capIncl>>

\* ---- uploadData (github-sync.ts:399-424) and the store -------------------

\* The store applies a PUT iff its sha names the current blob (no sha: the
\* file must not exist yet); otherwise it answers 409/422.
StoreAccepts(file, sha) ==
  IF file = Absent THEN sha = NoSha ELSE sha = ShaOf(file)

\* How a request can be answered: TRUE an answer of the store, FALSE a failure
\* on the way (always when offline, never in a reliable run).
Answers == IF ~online THEN {FALSE} ELSE IF reliable THEN {TRUE} ELSE BOOLEAN

\* getRemoteFile resolves (ok) or throws (a non-404 error)
RemoteFileResolved ==
  /\ ~effectDue
  /\ UNCHANGED <<sideVars, sessVars>>
  /\ pc = "getremote"
  /\ \E ok \in Answers :
       IF ~ok
       THEN /\ FailRun("failed")
            /\ UNCHANGED <<putSha, reqPuts, addr>>
       ELSE /\ IF dataFiles[addr] # Absent /\ dataFiles[addr] = DesiredText
               THEN \* remote.text === desiredText: return remote.sha, no PUT
                    /\ pc' = "setbase"
                    /\ UNCHANGED <<putSha, reqPuts>>
               ELSE \* sha = remote?.sha ?? null; PUT, with body.sha when there is one
                    /\ putSha' = IF dataFiles[addr] = Absent THEN NoSha
                                                            ELSE ShaOf(dataFiles[addr])
                    /\ reqPuts' = reqPuts + 1
                    /\ pc' = "put"
            /\ addr' = username
            /\ UNCHANGED <<syncStatus, effectDue, isPerformingSyncRef, inFlight,
                           sinceLastSync, sinceAttempt, lastRun, pendingSyncPromise,
                           awaited, joined>>
  /\ UNCHANGED <<warehouses, githubConfig, timerLeft, capW, capUser, capConfig, envVars,
                 savePending, mutVars, capIncl, reqGets, localWasBase>>

\* the PUT is answered: applied, rejected by the store, or failed on the way
PutResolved ==
  /\ ~effectDue
  /\ UNCHANGED <<sideVars, sessVars>>
  /\ pc = "put"
  /\ \E ok \in Answers :
       IF ok /\ StoreAccepts(dataFiles[addr], putSha)
       THEN /\ dataFiles' = [dataFiles EXCEPT ![addr] = DesiredText]
            /\ pc' = "setbase"
            /\ addr' = username
            /\ UNCHANGED <<syncStatus, effectDue, isPerformingSyncRef, inFlight,
                           sinceLastSync, sinceAttempt, lastRun, pendingSyncPromise,
                           awaited, joined>>
       ELSE /\ FailRun(IF ok THEN "stale" ELSE "failed")
            /\ UNCHANGED <<dataFiles, addr>>
  /\ UNCHANGED <<warehouses, githubConfig, timerLeft, capW, capUser, capConfig, putSha, online,
                 baseSnapshots, reliable, savePending, mutVars, capIncl, reqGets, reqPuts,
                 localWasBase>>

\* A snapshot that keeps the sha the PUT was sent with.
NewBaseWithSentSha == [data |-> sanitizeForJson(PushData), sha |-> putSha]

\* setBaseSnapshot's payload { data: sanitizeForJson(data), sha }: sha is what
\* uploadData returned, the sha of the text now in the store
NewBase == [data |-> sanitizeForJson(PushData), sha |-> ShaOf(DesiredText)]

\* await this.setBaseSnapshot(data, newSha) resolves (newSha is the sha of the
\* written or matching text); pushLocalOnly returns, purgeDeletedRecords begins
BaseSnapshotWritten ==
  /\ ~effectDue
  /\ UNCHANGED <<sideVars, sessVars>>
  /\ pc = "setbase"
  /\ baseSnapshots' = [baseSnapshots EXCEPT ![addr] = NewBase]
  /\ PurgeBegins
  /\ lastRun' = "uploaded"
  /\ UNCHANGED <<syncStatus, githubConfig, refVars, capW, capUser, capConfig, putSha, addr, online,
                 dataFiles, reliable, inFlight, awaited, joined, reqGets, reqPuts,
                 localWasBase, sinceAttempt, mutCount, unpushed, capIncl>>

\* purgeDeletedRecords' AsyncStorage writes resolve; 'Push completed'
PurgeStored ==
  /\ ~effectDue
  /\ UNCHANGED <<sideVars, sessVars>>
  /\ pc = "purge"
  /\ syncStatus' = "synced"
  /\ effectDue' = (syncStatus # "synced")
  /\ isPerformingSyncRef' = FALSE
  /\ EndRun("resolved", lastRun)
  /\ UNCHANGED <<warehouses, githubConfig, timerLeft, capW, capUser, capConfig, putSha, addr,
                 envVars, savePending, mutVars, capIncl, reqGets, reqPuts, localWasBase>>

\* ---- saveData and the effects (warehouse-store.ts:172-227) ---------------

\* saveData's AsyncStorage writes resolve and it sets the status
SaveDataStored ==
  /\ ~effectDue
  /\ UNCHANGED <<sideVars, sessVars>>
  /\ savePending > 0
  /\ savePending' = savePending - 1
  /\ syncStatus' = IF githubConfig
                   THEN (IF isPerformingSyncRef THEN "synced" ELSE "pending")
                   ELSE "synced"
  /\ effectDue' = (syncStatus' # syncStatus)
  /\ UNCHANGED <<warehouses, githubConfig, refVars, runVars, envVars, obsVars>>

\* the auto-push effect of the last render
AutoPushEffect ==
  /\ effectDue
  /\ UNCHANGED <<sideVars, sessVars>>
  /\ effectDue' = FALSE
  /\ IF githubConfig /\ syncStatus = "pending" /\ ~isPerformingSyncRef
     THEN performSync
     ELSE UNCHANGED syncTouched
  /\ UNCHANGED <<reactVars, isPerformingSyncRef, putSha, addr, envVars, savePending, mutVars>>

\* A listener that never re-triggers the push.
ListenerPushesNever == FALSE

\* the listener's condition: state.isConnected && state.isInternetReachable &&
\* syncStatus === 'pending' && githubConfig && !isPerformingSyncRef.current
ListenerPushes ==
  online' /\ syncStatus = "pending" /\ githubConfig /\ ~isPerformingSyncRef

\* the network state listener
NetworkChange ==
  /\ ~effectDue
  /\ UNCHANGED <<sideVars, sessVars>>
  /\ ~reliable
  /\ online' = ~online
  /\ IF ListenerPushes
     THEN performSync
     ELSE UNCHANGED syncTouched
  /\ UNCHANGED <<reactVars, isPerformingSyncRef, putSha, addr, dataFiles, baseSnapshots, reliable,
                 asyncVars, mutVars>>

\* the settings screen's "sync now" (handleManualSync)
ManualSync ==
  /\ ~effectDue
  /\ UNCHANGED <<sideVars, sessVars>>
  /\ performSync
  /\ UNCHANGED <<reactVars, isPerformingSyncRef, putSha, addr, envVars, asyncVars, mutVars>>

\* ---- local mutations (warehouse-store.ts:262-311) -----------------------

\* what every mutation does besides its setWarehouses: the render starts
\* saveData and re-runs the effects (saves: the saveData calls it causes)
Mutated(saves) ==
  /\ mutCount < MaxMutations
  /\ mutCount' = mutCount + 1
  /\ unpushed' = unpushed \cup {mutCount + 1}
  /\ inclNow' = inclNow \cup {mutCount + 1}
  /\ savePending' = Min2(savePending + saves, MaxSaves)
  /\ effectDue' = TRUE
  /\ UNCHANGED <<syncStatus, githubConfig, refVars, runVars, envVars, inFlight,
                 awaited, joined, runObs, sinceAttempt, capIncl>>

addWarehouse ==
  /\ ~effectDue
  /\ UNCHANGED <<sideVars, sessVars>>
  /\ \E name \in NewNames :
       warehouses' = Append(warehouses, NewWarehouse(mutCount + 1, name))
  /\ Mutated(1)

LiveIds(w) == { w[i].id : i \in {j \in 1..Len(w) : w[j].deleted # JsTrue} }

updateWarehouse ==
  /\ ~effectDue
  /\ UNCHANGED <<sideVars, sessVars>>
  /\ \E id \in LiveIds(warehouses), name \in UpdateNames :
       warehouses' = UpdatedWarehouses(warehouses, id, name)
  \* saveData(updated, products) in the updater, and the render's saveData
  /\ Mutated(2)

deleteWarehouse ==
  /\ ~effectDue
  /\ UNCHANGED <<sideVars, sessVars>>
  /\ \E id \in LiveIds(warehouses) :
       warehouses' = DeletedWarehouses(warehouses, id)
  /\ Mutated(1)

\* ---- resetSyncSnapshot (warehouse-store.ts:438-446) ----------------------

\* The Reset Sync Snapshot button (shown when GitHub is configured):
\* resetBaseSnapshot's AsyncStorage.removeItem(baseSnapshotKey) resolves and
\* setSyncStatus('pending') follows
ResetSyncSnapshot ==
  /\ ~effectDue
  /\ githubConfig
  /\ resetPc = "idle"
  /\ resetPc' = "done"
  /\ baseSnapshots' = [baseSnapshots EXCEPT ![username] = NoBase]
  /\ syncStatus' = "pending"
  /\ effectDue' = (syncStatus # "pending")
  /\ UNCHANGED <<warehouses, githubConfig, refVars, runVars, online, dataFiles, reliable,
                 savePending, obsVars, sessVars, mvars, rqVars, upVars>>

\* ---- environment --------------------------------------------------------

\* another device of the same identity replaces the shared file
OtherDeviceWrite ==
  /\ ~effectDue
  /\ UNCHANGED <<sideVars, sessVars>>
  /\ ~reliable
  /\ \E text \in OtherDeviceTexts :
       /\ text # remote
       /\ dataFiles' = [dataFiles EXCEPT ![username] = text]
  /\ UNCHANGED <<reactVars, refVars, runVars, online, baseSnapshots, reliable, asyncVars,
                 obsVars>>

\* time passes; a due timer fires before more time passes
Tick ==
  /\ ~effectDue
  /\ UNCHANGED <<sideVars, sessVars>>
  /\ timerLeft # 0
  /\ sinceLastSync' = Min2(sinceLastSync + TickMs, SYNC_MIN_INTERVAL_MS)
  /\ sinceAttempt' = Min2(sinceAttempt + TickMs, SYNC_MIN_INTERVAL_MS)
  /\ timerLeft' = IF timerLeft = NoTimer THEN NoTimer ELSE Max2(timerLeft - TickMs, 0)
  /\ UNCHANGED <<reactVars, isPerformingSyncRef, pendingSyncPromise, runVars, envVars,
                 asyncVars, inFlight, awaited, joined, runObs, mutVars, capIncl>>

\* ---- identity, initial load and pull on login ----------------------------
\* (auth-store.ts:12-51, warehouse-store.ts:28-79 and 229-257)

PullIdle == pullPc \in {"idle", "failed"}

\* loadUser and initializeData have completed: the screens take input
Ready == authPc = "done" /\ initPc = "done"

\* A pullOnLogin whose catch reports success.
PullCatchStatusSynced == "synced"

\* catch (error) { setSyncStatus('error') } of pullOnLogin
PullCatchStatus == "error"

\* The pull effect of a render (deps [isLoggedIn, githubConfig]) whose
\* isLoggedIn and githubConfig are given, run after the setUser effect left
\* the blob client's username at name: pullOnLogin up to its first await
\* when the ref says the user was logged out, then the ref is updated.
PullEffect(isLoggedIn, config, name, before) ==
  /\ wasLoggedInRef' = isLoggedIn
  /\ IF isLoggedIn /\ ~wasLoggedInRef /\ config
     THEN \* setSyncStatus('syncing'); downloadData requests dataFilePath
          /\ syncStatus' = "syncing"
          /\ pullPc' = "download"
          /\ pullAddr' = name
          /\ pulls' = before + 1
     ELSE \* not a login, or 'if (!githubConfig) return'
          /\ pulls' = before
          /\ UNCHANGED <<syncStatus, pullPc, pullAddr>>

\* setUser(u) of the auth store and the effects of the render it causes: the
\* setUser effect of the blob client, the auto-push effect with the status of
\* that render, the pull effect.
SetUserState(u) ==
  /\ identityChanges < MaxIdentityChanges
  /\ identityChanges' = IF u = user THEN identityChanges ELSE identityChanges + 1
  /\ user' = u
  /\ username' = UsernameOr(u)
  /\ IF githubConfig /\ syncStatus = "pending" /\ ~isPerformingSyncRef
     THEN performSyncIn(UsernameOr(u))
     ELSE UNCHANGED syncTouched
  /\ PullEffect(u # NoUser, githubConfig, UsernameOr(u), 0)
  /\ effectDue' = (syncStatus' # syncStatus)
  /\ UNCHANGED <<warehouses, githubConfig, isPerformingSyncRef, putSha, addr, envVars,
                 savePending, mutVars, initPc, pullDoc, sideVars>>

\* loadUser's AsyncStorage read resolves with the stored user or with none
LoadUserDone ==
  /\ ~effectDue
  /\ authPc = "loading"
  /\ authPc' = "done"
  /\ \E u \in {NoUser} \cup Users : SetUserState(u)

\* login(username) of the login screen
Login ==
  /\ ~effectDue
  /\ Ready
  /\ user = NoUser
  /\ PullIdle
  /\ \E u \in Users : SetUserState(u)
  /\ UNCHANGED authPc

\* logout()
Logout ==
  /\ ~effectDue
  /\ Ready
  /\ user # NoUser
  /\ SetUserState(NoUser)
  /\ UNCHANGED authPc

\* initializeData: loadConfig resolves with the stored configuration or null;
\* setGithubConfig(config), then githubSync.setUser with the user of the
\* first render (the callback has no deps: null, so 'local'); the render's
\* pull effect
LoadConfigDone ==
  /\ ~effectDue
  /\ initPc = "config"
  /\ initPc' = "local"
  /\ username' = "local"
  /\ \E config \in BOOLEAN :
       /\ githubConfig' = config
       /\ PullEffect(user # NoUser, config, "local", pulls)
  /\ effectDue' = TRUE
  /\ UNCHANGED <<warehouses, refVars, runVars, envVars, savePending, obsVars, user, authPc,
                 pullDoc, identityChanges, sideVars>>

\* initializeData: the stored collections are read (none stored), normalized
\* and set, isLoading becomes false and the render's saveData effect runs
LoadLocalDone ==
  /\ ~effectDue
  /\ initPc = "local"
  /\ initPc' = "done"
  /\ warehouses' = <<>>
  /\ inclNow' = {}
  /\ savePending' = Min2(savePending + 1, MaxSaves)
  /\ effectDue' = TRUE
  /\ UNCHANGED <<syncStatus, githubConfig, refVars, runVars, envVars, inFlight, awaited,
                 joined, runObs, sinceAttempt, mutCount, unpushed, capIncl, user, authPc,
                 username, wasLoggedInRef, pullPc, pullDoc, pullAddr, pulls, identityChanges,
                 sideVars>>

\* A downloadData that also throws when the file does not exist.
DownloadThrowsOnMissing(file, ok) == ~ok \/ file = CorruptText \/ file = Absent

\* null inside a document
JsNull == "null"

\* A text holding the bare word undefined where a value belongs: JSON.parse
\* rejects it, and accepts it once the word is replaced by null.  The text is
\* represented by the structure its repaired form denotes.
UndefinedText(owner) ==
  [text |-> [unrepaired |->
               [meta |-> [schemaVersion |-> 1, note |-> JsNull],
                warehouses |-> << SanitizeObject(RemoteRecord(owner, owner)) >>,
                products |-> <<>>]]]

\* A text of valid JSON that is no document.
IllShapedText == [text |-> IllShapedJson]

\* A text JSON.parse rejects, also after the repair, with a SyntaxError whose
\* message quotes a piece of the text that reads 404.
CorruptText404 == [text |-> [corrupt |-> TRUE, quoted |-> "404"]]

\* The contents of a remote file that the first JSON.parse or isWarehouseFile
\* of downloadData rejects.
DamagedTexts(owner) == {UndefinedText(owner), IllShapedText, CorruptText, CorruptText404}

\* decoded.replace(/\bundefined\b/g, 'null')
Repaired(file) ==
  IF "unrepaired" \in DOMAIN file.text THEN [text |-> file.text.unrepaired] ELSE file

\* JSON.parse(text) returns
Parses(file) == "corrupt" \notin DOMAIN file.text /\ "unrepaired" \notin DOMAIN file.text

\* JSON.parse(text) returns a value isWarehouseFile accepts
ParsesToDocument(file) == Parses(file) /\ isWarehouseFile(file.text)

\* The text whose document downloadData returns: the decoded text, or, when
\* its parse or its shape test throws, the repaired text (one repair pass).
DownloadedText(file) == IF ParsesToDocument(file) THEN file ELSE Repaired(file)

\* error.message.includes('404') for the error thrown in the repair pass:
\* 'Invalid shape after repair' does not hold it, a SyntaxError's message may
RepairErrorHas404(file) == ~Parses(Repaired(file)) /\ "quoted" \in DOMAIN file.text

\* downloadData returns null: the store answered 404, or the error caught
\* holds '404' in its message
DownloadReturnsNull(file) ==
  file = Absent \/ (~ParsesToDocument(DownloadedText(file)) /\ RepairErrorHas404(file))

\* downloadData throws: the request failed, or the text is no document also
\* after the repair (and the error's message does not hold '404')
DownloadThrows(file, ok) ==
  ~ok \/ (/\ file # Absent
          /\ ~ParsesToDocument(DownloadedText(file))
          /\ ~RepairErrorHas404(file))

\* pullRemoteOnLogin's downloadData resolves; with a document it calls
\* setBaseSnapshot, which reads baseSnapshotKey
PullDownloaded ==
  /\ ~effectDue
  /\ pullPc = "download"
  /\ \E ok \in Answers :
       LET file == dataFiles[pullAddr] IN
       IF DownloadThrows(file, ok)
       THEN /\ syncStatus' = PullCatchStatus
            /\ pullPc' = "failed"
            /\ UNCHANGED <<pullDoc, pullAddr>>
       ELSE IF DownloadReturnsNull(file)
       THEN \* 404: null, 'synced' without touching anything
            /\ syncStatus' = "synced"
            /\ pullPc' = "idle"
            /\ UNCHANGED <<pullDoc, pullAddr>>
       ELSE /\ pullDoc' = [data |-> ParseJson(DownloadedText(file)), sha |-> ShaOf(file),
                         owner |-> pullAddr]
            /\ pullAddr' = username
            /\ pullPc' = "setbase"
            /\ UNCHANGED syncStatus
  /\ effectDue' = (syncStatus' # syncStatus)
  /\ UNCHANGED <<warehouses, githubConfig, refVars, runVars, envVars, savePending, obsVars,
                 user, authPc, username, wasLoggedInRef, initPc, pulls, identityChanges,
                 sideVars>>

\* setBaseSnapshot(remoteData, remote.sha) resolves; pullOnLogin sets the
\* normalized remote collections (the render starts saveData) and awaits its
\* own AsyncStorage writes
PullBaseWritten ==
  /\ ~effectDue
  /\ pullPc = "setbase"
  /\ baseSnapshots' = [baseSnapshots EXCEPT
                         ![pullAddr] = [data |-> sanitizeForJson(pullDoc.data),
                                        sha |-> pullDoc.sha]]
  /\ warehouses' = NormalizedRemoteWarehouses(pullDoc.data.warehouses)
  /\ inclNow' = {}
  /\ savePending' = IF initPc = "done" THEN Min2(savePending + 1, MaxSaves) ELSE savePending
  /\ effectDue' = TRUE
  /\ pullPc' = "store"
  /\ pullDoc' = NoDoc
  /\ UNCHANGED <<syncStatus, githubConfig, refVars, runVars, online, dataFiles, reliable,
                 inFlight, awaited, joined, runObs, sinceAttempt, mutCount, unpushed,
                 capIncl, user, authPc, username, wasLoggedInRef, initPc, pullAddr, pulls,
                 identityChanges, sideVars>>

\* the AsyncStorage writes resolve: setLastSyncTime, setSyncStatus('synced')
PullStored ==
  /\ ~effectDue
  /\ pullPc = "store"
  /\ syncStatus' = "synced"
  /\ effectDue' = (syncStatus # "synced")
  /\ pullPc' = "idle"
  /\ UNCHANGED <<warehouses, githubConfig, refVars, runVars, envVars, savePending, obsVars,
                 user, authPc, username, wasLoggedInRef, initPc, pullDoc, pullAddr, pulls,
                 identityChanges, sideVars>>

PullStep == PullDownloaded \/ PullBaseWritten \/ PullStored

PushStep ==
  \/ NetStateResolved
  \/ BaseSnapshotRead
  \/ RemoteFileResolved
  \/ PutResolved
  \/ BaseSnapshotWritten
  \/ PurgeStored

LocalMutation == addWarehouse \/ updateWarehouse \/ deleteWarehouse

\* ------------------------------------------------------------------------
\* Part 3: one request of the blob client, makeGitHubRequest
\* (src/utils/github-sync.ts:308-337)
\* ------------------------------------------------------------------------

\* attempt < 5
MaxRetries == 5

\* The responses fetch resolves with.  A header is <<>> when the response
\* does not carry it and <<n>> when it carries the number n.
StatusCodes == {200, 400, 401, 403, 404, 422, 429}
RemainingHeaders == {<<>>, <<0>>, <<7>>}
RetryAfterHeaders == {<<>>, <<3>>}
Responses ==
  [status : StatusCodes, remaining : RemainingHeaders, retryAfter : RetryAfterHeaders]

NoResponse == [status |-> 0, remaining |-> <<>>, retryAfter |-> <<>>]

\* response.ok
ResponseOk(response) == response.status >= 200 /\ response.status <= 299

\* Number(response.headers.get('X-RateLimit-Remaining') || '1')
Remaining(response) ==
  IF response.remaining = <<>> THEN 1 ELSE response.remaining[1]

\* response.status === 403 || response.status === 429 || remaining === 0
RetryWanted(response) ==
  response.status = 403 \/ response.status = 429 \/ Remaining(response) = 0

\* retryAfterHeader ? Number(retryAfterHeader) * 1000 : 0
RetryAfterMs(response) ==
  IF response.retryAfter = <<>> THEN 0 ELSE response.retryAfter[1] * 1000

\* retryAfter > 0 ? retryAfter : Math.pow(2, attempt) * 1000
RetryDelay(response, attempt) ==
  IF RetryAfterMs(response) > 0 THEN RetryAfterMs(response) ELSE (2 ^ attempt) * 1000

RequestIdle ==
  /\ rqPc = "idle"
  /\ rqAttempt = 0
  /\ rqResponse = NoResponse
  /\ rqSent = 0
  /\ rqWaits = <<>>
  /\ rqPersistent = TRUE

\* await fetch(...) resolves: on a rate-limit signal with attempts left the
\* call sleeps for the delay; otherwise it throws on !response.ok and returns
\* the response else
FetchResolved ==
  /\ rqPc = "fetch"
  /\ \E response \in Responses :
       /\ rqResponse' = response
       /\ rqPersistent' = (rqPersistent /\ RetryWanted(response))
       /\ IF RetryWanted(response) /\ rqAttempt < MaxRetries
          THEN /\ rqPc' = "wait"
               /\ rqWaits' = Append(rqWaits, RetryDelay(response, rqAttempt))
          ELSE /\ rqPc' = IF ResponseOk(response) THEN "returned" ELSE "thrown"
               /\ UNCHANGED rqWaits
  /\ rqSent' = rqSent + 1
  /\ UNCHANGED <<rqAttempt, mvars, upVars, resetPc, ovars>>

\* the setTimeout of the delay fires: makeGitHubRequest(endpoint, options,
\* attempt + 1) sends the request again
DelayElapsed ==
  /\ rqPc = "wait"
  /\ rqPc' = "fetch"
  /\ rqAttempt' = rqAttempt + 1
  /\ UNCHANGED <<rqResponse, rqSent, rqWaits, rqPersistent, mvars, upVars, resetPc, ovars>>

\* ------------------------------------------------------------------------
\* Part 4: one call of uploadData (src/utils/github-sync.ts:399-424)
\* ------------------------------------------------------------------------

\* The data arguments: no record, or one record with or without storeId.
UploadDocs ==
  { WarehouseFile(w) :
      w \in {<<>>} \cup { << RemoteRecord("local", sid) >> : sid \in {Undef, "local"} } }

\* desiredText = stableStringify(sanitizeForJson(data))
UploadText(data) == stableStringify(sanitizeForJson(data))

\* What the remote file can hold, and the currentSha arguments: null or the
\* sha of one of those texts.
UploadRemotes == {Absent} \cup { UploadText(d) : d \in UploadDocs }
UploadShas == {NoSha} \cup { ShaOf(t) : t \in UploadRemotes \ {Absent} }

UploadIdle ==
  /\ upPc = "idle"
  /\ upData = WarehouseFile(<<>>)
  /\ upSha = NoSha
  /\ upRemote = Absent
  /\ upPuts = 0
  /\ upResult = NoSha

\* !sha
ShaMissing(sha) == sha = NoSha

\* uploadData up to its first await: getRemoteFile when there is no sha, the
\* PUT with body.sha = currentSha when there is one
UploadDataCalled ==
  /\ upPc = "called"
  /\ IF ShaMissing(upSha)
     THEN /\ upPc' = "getremote"
          /\ UNCHANGED upPuts
     ELSE /\ upPc' = "put"
          /\ upPuts' = upPuts + 1
  /\ UNCHANGED <<upData, upSha, upRemote, upResult, mvars, rqVars, resetPc, ovars>>

\* await this.getRemoteFile() resolves or throws: the same text returns the
\* remote sha, any other answer leads to the PUT with the remote's sha
UploadRemoteFileResolved ==
  /\ upPc = "getremote"
  /\ \E ok \in BOOLEAN :
       IF ~ok
       THEN /\ upPc' = "thrown"
            /\ UNCHANGED <<upSha, upPuts, upResult>>
       ELSE IF upRemote # Absent /\ upRemote = UploadText(upData)
       THEN /\ upPc' = "returned"
            /\ upResult' = ShaOf(upRemote)
            /\ UNCHANGED <<upSha, upPuts>>
       ELSE /\ upSha' = IF upRemote = Absent THEN NoSha ELSE ShaOf(upRemote)
            /\ upPc' = "put"
            /\ upPuts' = upPuts + 1
            /\ UNCHANGED upResult
  /\ UNCHANGED <<upData, upRemote, mvars, rqVars, resetPc, ovars>>

\* the PUT is answered: applied (the response carries the new content's
\* sha), or rejected or failed (makeGitHubRequest throws)
UploadPutResolved ==
  /\ upPc = "put"
  /\ \E ok \in BOOLEAN :
       IF ok /\ StoreAccepts(upRemote, upSha)
       THEN /\ upRemote' = UploadText(upData)
            /\ upResult' = ShaOf(UploadText(upData))
            /\ upPc' = "returned"
       ELSE /\ upPc' = "thrown"
            /\ UNCHANGED <<upRemote, upResult>>
  /\ UNCHANGED <<upData, upSha, upPuts, mvars, rqVars, resetPc, ovars>>

\* ------------------------------------------------------------------------
\* Spec: the initial state and the next-state relation
\* ------------------------------------------------------------------------
MergeIdle == mBase = <<>> /\ mLocal = <<>> /\ mRemote = <<>> /\ mResult = NotMerged

\* no request-level call and no snapshot reset is under way
SideIdle == MergeIdle /\ RequestIdle /\ UploadIdle /\ resetPc = "idle"

Init == OrchInit /\ SideIdle

Next ==
  \/ PushStep
  \/ TimerFire
  \/ SaveDataStored
  \/ AutoPushEffect
  \/ NetworkChange
  \/ ManualSync
  \/ LocalMutation
  \/ OtherDeviceWrite
  \/ Tick

vars == <<ovars, sideVars>>

Spec == Init /\ [][Next]_vars

\* ------------------------------------------------------------------------
\* SessionSpec: the providers from their mount: loadUser and initializeData
\* in either order, login and logout, the pull on login, and pushes; the
\* store holds nothing, a document or an unparsable text for each user
\* ------------------------------------------------------------------------
SessionStart ==
  /\ Mounted
  /\ githubConfig = FALSE
  /\ user = NoUser
  /\ authPc = "loading"
  /\ username = "local"
  /\ wasLoggedInRef = FALSE
  /\ initPc = "config"
  /\ pullPc = "idle"
  /\ pullDoc = NoDoc
  /\ pullAddr = "local"
  /\ pulls = 0
  /\ identityChanges = 0
  /\ reliable \in BOOLEAN
  /\ SideIdle

SessionInit ==
  /\ SessionStart
  /\ dataFiles \in { f \in [Identities -> UNION { RemoteTexts(u) : u \in Users }
                                            \cup {Absent, CorruptText}] :
                       /\ f["local"] = Absent
                       /\ \A u \in Users : f[u] \in RemoteTexts(u) \cup {Absent, CorruptText} }

\* addWarehouse from a screen, once the providers have loaded
SessionMutation ==
  /\ Ready
  /\ mutCount < MaxSessionMutations
  /\ addWarehouse

SessionNext ==
  \/ LoadUserDone
  \/ LoadConfigDone
  \/ LoadLocalDone
  \/ Login
  \/ Logout
  \/ PullStep
  \/ PushStep
  \/ TimerFire
  \/ SaveDataStored
  \/ AutoPushEffect
  \/ SessionMutation
  \/ Tick

SessionSpec == SessionInit /\ [][SessionNext]_vars

\* Spec with the scheduling the runtime guarantees: time passes, a due
\* setTimeout callback runs, awaited promises settle, React runs the effects
\* of a render, an AsyncStorage write completes. Nothing forces a mutation,
\* a manual sync, a network change or another device's write.
LiveSpec ==
  /\ Spec
  /\ WF_vars(Tick)
  /\ WF_vars(TimerFire)
  /\ WF_vars(PushStep)
  /\ WF_vars(AutoPushEffect)
  /\ WF_vars(SaveDataStored)

\* ------------------------------------------------------------------------
\* MergeSpec: mergeRecords on every base/local/remote over one record id
\* ------------------------------------------------------------------------
MergeInputs == {<<>>} \cup { <<rec>> : rec \in MergeRecordSet("p1") }

MergeInit ==
  /\ mBase \in MergeInputs
  /\ mLocal \in MergeInputs
  /\ mRemote \in MergeInputs
  /\ mResult = NotMerged
  /\ RequestIdle
  /\ UploadIdle
  /\ resetPc = "idle"
  /\ OrchInit
  /\ githubConfig = FALSE
  /\ reliable = FALSE

DoMerge ==
  /\ mResult = NotMerged
  /\ mResult' = mergeRecords(mBase, mLocal, mRemote, "product")
  /\ UNCHANGED <<mBase, mLocal, mRemote, rqVars, upVars, resetPc, ovars>>

MergeNext == DoMerge

MergeSpec == MergeInit /\ [][MergeNext]_vars

\* ------------------------------------------------------------------------
\* StampedSpec: mergeRecords on one record edited on both sides, each edit
\* stamped as the mutation paths stamp it
\* ------------------------------------------------------------------------
StampedInit ==
  /\ mBase \in { <<rec>> : rec \in StampedBaseSet("p1") }
  /\ mLocal \in { <<rec>> : rec \in StampedEditSet("p1") }
  /\ mRemote \in { <<rec>> : rec \in StampedEditSet("p1") }
  /\ mResult = NotMerged
  /\ RequestIdle
  /\ UploadIdle
  /\ resetPc = "idle"
  /\ OrchInit
  /\ githubConfig = FALSE
  /\ reliable = FALSE

StampedSpec == StampedInit /\ [][MergeNext]_vars

\* ------------------------------------------------------------------------
\* Claims about mergeRecords (checked under MergeSpec)
\* ------------------------------------------------------------------------
mDone == mResult # NotMerged

mB == Find(mBase, "p1")
mL == Find(mLocal, "p1")
mR == Find(mRemote, "p1")

\* The merged record of id p1 in the result.
mMerged == Find(mResult.records, "p1")

MergedFieldNames == {"updatedAt", "deleted", "name"}

\* local and remote both changed `key` away from base, to different values
BothChangedDifferently(key) ==
  /\ mL # NoRec /\ mR # NoRec
  /\ ValOf(mL, key) # ValOf(mB, key)
  /\ ValOf(mR, key) # ValOf(mB, key)
  /\ ValOf(mL, key) # ValOf(mR, key)

\* the result carries a conflict entry for p1 naming `key` with its three values
HasConflictOn(key) ==
  \E i \in 1..Len(mResult.conflicts) :
     /\ mResult.conflicts[i].recordId = "p1"
     /\ \E j \in 1..Len(mResult.conflicts[i].fields) :
           mResult.conflicts[i].fields[j] = ConflictField(mB, mL, mR, key)

\* C1: for a record present in local and remote and not resolved as a
\* tombstone, every field (other than id and version) that local and remote
\* both changed away from base to different values has a conflict entry with
\* its base, local and remote values, whichever updatedAt is newer.
C1_ConflictRecordedWhateverTimestamps ==
  mDone =>
    \A key \in MergedFieldNames :
       (BothChangedDifferently(key) /\ ChooseTombstone(mB, mL, mR) = NoRec)
          => HasConflictOn(key)

\* C5: tombstone dominance: local deleted with a version above remote's gives
\* a deleted merged record, whatever base is.
C5_TombstoneDominance ==
  (mDone /\ mL # NoRec /\ mR # NoRec /\ IsDeleted(mL) /\ mL.version > mR.version)
     => IsDeleted(mMerged)

\* C6: resurrection prevention: remote deleted with a version not below
\* local's gives a deleted merged record, also when local is alive.
C6_ResurrectionPrevention ==
  (mDone /\ mL # NoRec /\ mR # NoRec /\ IsDeleted(mR) /\ mR.version >= mL.version)
     => IsDeleted(mMerged)

\* p1 is merged field by field: some input holds it and no tombstone is chosen
MergedByField ==
  /\ mDone
  /\ mB # NoRec \/ mL # NoRec \/ mR # NoRec
  /\ ChooseTombstone(mB, mL, mR) = NoRec

C29_MergedVersionIsMaxPlusOne ==
  MergedByField =>
    /\ \E x \in {mB, mL, mR} \ {NoRec} : mMerged.version = x.version + 1
    /\ \A x \in {mB, mL, mR} \ {NoRec} : mMerged.version > x.version

\* C29 case: base v1, local v2, remote v1 give v3.
C29_OneTwoOneGivesThree ==
  /\ MergedByField /\ mB # NoRec /\ mL # NoRec /\ mR # NoRec
  /\ mB.version = 1 /\ mL.version = 2 /\ mR.version = 1
  /\ mMerged.version = 3

\* ------------------------------------------------------------------------
\* Claims about the push orchestrator (checked under Spec)
\* ------------------------------------------------------------------------
\* a push is scheduled (deferred) / in flight
Scheduled == timerLeft # NoTimer
Running == pc # "idle"
Busy == Scheduled \/ Running

\* the step in which the store applies a push's PUT
WriteApplied == pc = "put" /\ pc' = "setbase"

\* nothing is scheduled, running or waiting to be flushed: without a new
\* mutation, sync request or network event no push will execute
Quiescent ==
  /\ ~Busy
  /\ pendingSyncPromise = 0
  /\ savePending = 0
  /\ ~effectDue

\* C2: a push writes conditionally on the token stored with BASE: a write the
\* store applies replaces the document BASE's token names, so a document another
\* device wrote since this client's last successful push is never overwritten.
C2_WriteConditionalOnBaseToken ==
  [][(WriteApplied /\ baseSnap # NoBase) => ShaOf(remote) = baseSnap.sha]_vars

\* C3: a push whose write the store rejected as stale re-fetches, merges and
\* retries the write exactly once: it ends in error only after a second PUT.
C3_StaleWriteRetriedOnce ==
  (pc = "idle" /\ lastRun = "stale") => reqPuts = 2

\* C4: a push that executes while BASE exists and the document of the local
\* collections equals BASE's under canonical serialization sends no request,
\* neither read nor write.
C4_NoRequestWhenLocalEqualsBase ==
  localWasBase => (reqGets = 0 /\ reqPuts = 0)

\* C7: at most one push is in flight: performSyncNow is never entered while a
\* previous performSyncNow has not completed.
C7_AtMostOnePushInFlight == inFlight <= 1

\* C7 case: a performSync call arrived while a push was in flight.
C7_CallDuringPushInFlight == Running /\ inFlight = 1 /\ joined

\* C8: while a push is scheduled or in flight the pending promise is never
\* replaced, no other push is scheduled and none starts but the scheduled one;
\* every promise a caller awaits is that one pending promise, and when it
\* settles no caller is left waiting.
C8_BusyStep ==
  /\ Busy =>
       /\ pendingSyncPromise' \in {pendingSyncPromise, 0}
       /\ timerLeft' = NoTimer \/ (Scheduled /\ timerLeft' <= timerLeft)
       /\ inFlight' > inFlight => (timerLeft = 0 /\ ~Running)
  /\ (pendingSyncPromise # 0 /\ pendingSyncPromise' = 0) => awaited' = {}

C8_SinglePendingPromise ==
  /\ Busy => pendingSyncPromise # 0
  /\ awaited \subseteq {pendingSyncPromise} \ {0}

C8_CallsCollapseIntoPendingPromise ==
  [](C8_SinglePendingPromise) /\ [][C8_BusyStep]_vars

\* C8 case: a performSync call arrived while a push was scheduled.
C8_CallDuringScheduledPush ==
  Scheduled /\ timerLeft > 0 /\ joined /\ awaited = {pendingSyncPromise}

\* C9: push executions are throttled whatever the outcome of the previous
\* attempt: performSyncNow is entered only when the interval has passed since
\* the previous attempt ended.
C9_ThrottledWhateverOutcome ==
  [][inFlight' > inFlight => sinceAttempt >= SYNC_MIN_INTERVAL_MS]_vars

\* C10: with the remote configured, the network reachable and requests
\* succeeding, every mutation reaches the payload of a push: once nothing is
\* scheduled, running or waiting and the status reads synced, no mutation is
\* left that no push payload reflects.
C10_EveryMutationReachesAPush ==
  (reliable /\ githubConfig /\ Quiescent /\ syncStatus = "synced") => unpushed = {}

\* C14: BASE changes only in the step that ends a successful upload, and then
\* it is the pushed document with the token of that document in the store;
\* once BASE is written the push can only end in success, so a failed or
\* skipped push leaves BASE as it was.
C14_Step ==
  /\ baseSnap' # baseSnap =>
       /\ pc = "setbase" /\ pc' = "purge" /\ lastRun' = "uploaded"
       /\ baseSnap'.data = sanitizeForJson(PushData)
       /\ baseSnap'.sha = ShaOf(stableStringify(baseSnap'.data))
  /\ (pc = "purge" /\ pc' # "purge") =>
       /\ pc' = "idle" /\ syncStatus' = "synced"
       /\ lastRun' \in {"uploaded", "noop"}
       /\ baseSnap' = baseSnap

C14_BaseFollowsSuccessfulPush == [][C14_Step]_vars

\* C14 case: an upload has just written BASE.
C14_BaseWrittenByUpload ==
  pc = "purge" /\ lastRun = "uploaded" /\ reqPuts = 1 /\ baseSnap # NoBase

\* C18: a push that fires while the network is unreachable sends no request,
\* raises no error, leaves the collections and BASE unchanged and leaves the
\* status pending.
C18_Step ==
  (pc = "netstate" /\ pc' # "netstate" /\ ~online) =>
     /\ pc' = "idle" /\ lastRun' = "offline"
     /\ reqGets' = 0 /\ reqPuts' = 0
     /\ syncStatus' = "pending"
     /\ warehouses' = warehouses /\ baseSnap' = baseSnap /\ remote' = remote
     /\ sinceLastSync' = 0

C18_OfflinePushSkipped == [][C18_Step]_vars

\* C18 case: a push has just been skipped with the network unreachable.
C18_PushSkippedOffline ==
  ~online /\ pc = "idle" /\ lastRun = "offline" /\ syncStatus = "pending"

\* C19 case: the status is pending since a push was skipped for lack of
\* network, and the network is reachable again.
C19_ReachableAfterOfflineSkip ==
  online /\ githubConfig /\ syncStatus = "pending" /\ lastRun = "offline"

\* C19: when the status is pending because a push was skipped offline and the
\* network is reported reachable, performSyncNow is eventually entered again,
\* whether or not the user mutates anything in between.
C19_ReconnectLeadsToPush == C19_ReachableAfterOfflineSkip ~> Running

\* C19 case: the reconnect found the skipped push's pending status and a push
\* is now scheduled or running.
C19_PushScheduledOnReconnect ==
  C19_ReachableAfterOfflineSkip /\ pendingSyncPromise # 0 /\ unpushed # {}

\* the step in which a pull that found a document replaces the collections
PullApplied == pullPc = "setbase" /\ pullPc' = "store"

\* C15: when a pull on login that found a document replaces the collections,
\* they are exactly the records of that document, and BASE of the identity
\* the document belongs to is that document with its version token.
C15_PullReplacesCollectionsAndBase ==
  [][PullApplied =>
       /\ warehouses' = pullDoc.data.warehouses
       /\ baseSnapshots'[pullDoc.owner] =
            [data |-> sanitizeForJson(pullDoc.data), sha |-> pullDoc.sha]]_vars

\* C16: once the stored identity and the stored configuration have loaded,
\* a logged-in session with a configured remote has had exactly one pull
\* since it became logged in.
C16_OnePullPerLogin ==
  (Ready /\ user # NoUser /\ githubConfig) => pulls = 1

\* the step in which pullOnLogin's catch runs
PullFailed == pullPc = "download" /\ pullPc' = "failed"

C20_PerIdentityIsolation ==
  /\ pc \in {"getbase", "getremote", "put", "setbase"} => addr = capUser
  /\ pullPc = "setbase" => pullAddr = pullDoc.owner

\* the merge applied again to its own output: base = local = the records it
\* returned, remote unchanged
mAgain == mergeRecords(mResult.records, mResult.records, mRemote, "product")

\* C12: merge idempotence: mergeRecords(out, out, remote) returns records equal
\* to out (same field values, same version) and no conflict.
C12_MergeIdempotent ==
  mDone => (mAgain.records = mResult.records /\ mAgain.conflicts = <<>>)

\* the merge with the roles of local and remote exchanged
mSwapped == mergeRecords(mBase, mRemote, mLocal, "product")

\* the conflicts of a result as (record id, field name, base, local, remote)
ConflictSet(res) ==
  UNION { { <<res.conflicts[i].recordId, res.conflicts[i].fields[j].name,
              res.conflicts[i].fields[j].base, res.conflicts[i].fields[j].local,
              res.conflicts[i].fields[j].remote>> :
              j \in 1..Len(res.conflicts[i].fields) } :
          i \in 1..Len(res.conflicts) }

\* C13: conflict symmetry: the conflicts of merge(base, local, remote) and of
\* merge(base, remote, local) name the same record ids and fields with the
\* same base values, local and remote values exchanged.
C13_ConflictSymmetry ==
  mDone =>
    ConflictSet(mSwapped) = { <<c[1], c[2], c[3], c[5], c[4]>> : c \in ConflictSet(mResult) }

\* ------------------------------------------------------------------------
\* Claims about mergeRecords on stamped edits (checked under StampedSpec)
\* ------------------------------------------------------------------------
DomainFields == {"name", "location"}

\* the domain fields a side changed relative to base
ChangedBy(side) == { k \in DomainFields : ValOf(side, k) # ValOf(mB, k) }

\* both sides edited the record, in disjoint sets of domain fields
DisjointEdits ==
  /\ mB # NoRec /\ mL # NoRec /\ mR # NoRec
  /\ ChangedBy(mL) # {} /\ ChangedBy(mR) # {}
  /\ ChangedBy(mL) \cap ChangedBy(mR) = {}

\* C11: edits of disjoint domain fields, each side carrying its own
\* updatedAt/updatedBy stamp, give no conflict entry, and every changed field
\* has the value of the side that changed it.
C11_DisjointEditsNeverConflict ==
  (mDone /\ DisjointEdits) =>
     /\ mResult.conflicts = <<>>
     /\ \A k \in ChangedBy(mL) : mMerged[k] = mL[k]
     /\ \A k \in ChangedBy(mR) : mMerged[k] = mR[k]

\* ------------------------------------------------------------------------
\* Claims about the local mutations (checked under Spec)
\* ------------------------------------------------------------------------

\* a step of addWarehouse, updateWarehouse or deleteWarehouse
LocalMutationStep == mutCount' = mutCount + 1

\* C21: a record is created with version 1; an update or a soft delete
\* raises the version of the record it changes by exactly 1 and stamps
\* updatedBy with the current identity; a mutation changes some record and
\* leaves no record's version equal (when changed) or lower.
C21_MutationRaisesVersionByOne ==
  [][LocalMutationStep =>
       /\ warehouses' # warehouses
       /\ Len(warehouses') >= Len(warehouses)
       /\ \A i \in 1..Len(warehouses') :
            IF i > Len(warehouses)
            THEN /\ warehouses'[i].version = 1
                 /\ warehouses'[i].updatedBy = CurrentUser
            ELSE \/ warehouses'[i] = warehouses[i]
                 \/ /\ warehouses'[i].id = warehouses[i].id
                    /\ warehouses'[i].version = warehouses[i].version + 1
                    /\ warehouses'[i].updatedBy = CurrentUser]_vars

\* C21 witness: a record created at version 1 and then soft-deleted stands
\* at version 2, stamped by the current identity.
C21_TombstoneAtVersionTwo ==
  \E i \in 1..Len(warehouses) :
     /\ warehouses[i].deleted = JsTrue
     /\ warehouses[i].version = 2
     /\ warehouses[i].updatedBy = CurrentUser

\* the ids of the tombstones of a collection
Tombstones(w) == { w[i].id : i \in {j \in 1..Len(w) : w[j].deleted = JsTrue} }

\* C22: a tombstone stays in the local collection until a push that carried
\* its deletion has completed: it leaves the collection only in the purge of
\* a run whose payload was built from a collection holding that tombstone.
C22_TombstoneKeptUntilPushed ==
  [][\A id \in Tombstones(warehouses) \ Tombstones(warehouses') :
        /\ pc = "setbase" /\ pc' = "purge"
        /\ id \in Tombstones(capW)]_vars

\* ------------------------------------------------------------------------
\* Claims about the documents written to the remote (checked under SessionSpec)
\* ------------------------------------------------------------------------

\* the push sends its PUT
WriteIssued == pc = "getremote" /\ pc' = "put"

\* C23: the document of every PUT the client sends holds only records whose
\* storeId is the current identity, and no record with deleted = true.
C23_WritesOnlyOwnLiveRecords ==
  [][WriteIssued =>
       \A i \in 1..Len(PushData.warehouses) :
          /\ PushData.warehouses[i].storeId = CurrentUser
          /\ PushData.warehouses[i].deleted # JsTrue]_vars

\* the GET of a pull or of a push is answered while the addressed file does
\* not exist, in a run where every request is answered: a 404
PullAnswered404 ==
  reliable /\ pullPc = "download" /\ pullPc' # "download" /\ dataFiles[pullAddr] = Absent
PushAnswered404 ==
  reliable /\ pc = "getremote" /\ pc' # "getremote" /\ dataFiles[addr] = Absent

\* C26: a 404 is not an error: the pull that meets it ends 'synced' with the
\* collections and every BASE snapshot unchanged, and the push that meets it
\* sets no status and goes on to a PUT that carries no sha.
C26_MissingRemoteIsNotAnError ==
  [][/\ PullAnswered404 =>
          /\ pullPc' = "idle"
          /\ syncStatus' = "synced"
          /\ warehouses' = warehouses
          /\ baseSnapshots' = baseSnapshots
     /\ PushAnswered404 =>
          /\ pc' = "put"
          /\ putSha' = NoSha
          /\ reqPuts' = reqPuts + 1
          /\ syncStatus' = syncStatus]_vars

\* C26 witness: alice is logged in, her pull has run to its end with status
\* 'synced' although her file does not exist, and nothing was pulled.
C26_PullOfMissingFileSynced ==
  /\ reliable /\ user = "alice" /\ dataFiles["alice"] = Absent
  /\ pulls = 1 /\ pullPc = "idle" /\ syncStatus = "synced"
  /\ warehouses = <<>> /\ baseSnapshots["alice"] = NoBase

\* ------------------------------------------------------------------------
\* RequestSpec: one call of makeGitHubRequest against a server that answers
\* each request with any of Responses
\* ------------------------------------------------------------------------
RequestInit ==
  /\ rqPc = "fetch"
  /\ rqAttempt = 0
  /\ rqResponse = NoResponse
  /\ rqSent = 0
  /\ rqWaits = <<>>
  /\ rqPersistent = TRUE
  /\ MergeIdle
  /\ UploadIdle
  /\ resetPc = "idle"
  /\ OrchInit
  /\ githubConfig = TRUE
  /\ reliable = FALSE

RequestNext == FetchResolved \/ DelayElapsed

RequestSpec == RequestInit /\ [][RequestNext]_vars

\* the call has ended, by returning a response or by throwing
RequestEnded == rqPc \in {"returned", "thrown"}

\* C24: a call never sends more than 1 + 5 requests; its i-th wait is the
\* Retry-After hint or 2^(i-1) seconds; and a call whose every response
\* carried a rate-limit signal (403, 429 or X-RateLimit-Remaining 0) ends by
\* throwing after exactly 5 retries.
C24_PersistentLimitEndsInError ==
  /\ rqSent <= MaxRetries + 1
  /\ \A i \in 1..Len(rqWaits) :
        rqWaits[i] \in {(2 ^ (i - 1)) * 1000} \cup
                       { h[1] * 1000 : h \in RetryAfterHeaders \ {<<>>} }
  /\ (RequestEnded /\ rqPersistent) => (rqPc = "thrown" /\ rqSent = MaxRetries + 1)

\* C25: a first response of 400, 401 or 422, or of 403, whose
\* X-RateLimit-Remaining is not 0 ends the call with an error after that one
\* request.
C25_OnlyRateLimitIsRetried ==
  (/\ rqSent = 1
   /\ rqResponse.status \in {400, 401, 403, 422}
   /\ Remaining(rqResponse) > 0)
     => rqPc = "thrown"

\* ------------------------------------------------------------------------
\* UploadSpec: one call of uploadData with any of the data arguments, with
\* or without a currentSha, against any of the remote files
\* ------------------------------------------------------------------------
UploadInit ==
  /\ upPc = "called"
  /\ upData \in UploadDocs
  /\ upSha \in UploadShas
  /\ upRemote \in UploadRemotes
  /\ upPuts = 0
  /\ upResult = NoSha
  /\ MergeIdle
  /\ RequestIdle
  /\ resetPc = "idle"
  /\ OrchInit
  /\ githubConfig = TRUE
  /\ reliable = FALSE

UploadNext == UploadDataCalled \/ UploadRemoteFileResolved \/ UploadPutResolved

UploadSpec == UploadInit /\ [][UploadNext]_vars

\* C30: a call of uploadData, with or without a currentSha, whose text
\* equals the remote file's content has sent no PUT while it runs, and a
\* call that returns without a PUT returns the remote's sha.
C30_SameContentSendsNoWrite ==
  /\ (/\ upPc \in {"called", "getremote", "put"}
      /\ upRemote # Absent
      /\ upRemote = UploadText(upData)) => upPuts = 0
  /\ (upPc = "returned" /\ upPuts = 0) => upResult = ShaOf(upRemote)

\* ------------------------------------------------------------------------
\* ResetSpec: the orchestrator of Spec with the Reset Sync Snapshot button
\* ------------------------------------------------------------------------
ResetNext == Next \/ ResetSyncSnapshot

ResetSpec == Init /\ [][ResetNext]_vars

\* the step of resetSyncSnapshot, and the step in which the first push after
\* it reads BASE
ResetStep == resetPc = "idle" /\ resetPc' = "done"
FirstReadAfterReset == resetPc = "done" /\ resetPc' = "read"

\* C27: resetSyncSnapshot leaves BASE absent and the status 'pending'; the
\* next push to read BASE finds it absent and, whether or not a mutation was
\* made, requests the remote file; a push that got the remote file sends a
\* PUT exactly when its text differs from the remote's, and ends by writing
\* BASE as its document paired with the sha of the text the remote held when
\* the push compared or wrote it.
C27_ResetThenPushRebuildsBase ==
  [][/\ ResetStep => (baseSnap' = NoBase /\ syncStatus' = "pending")
     /\ FirstReadAfterReset =>
          /\ baseSnapshots[addr] = NoBase
          /\ pc' = "getremote"
          /\ reqGets' = reqGets + 1
     /\ (pc = "getremote" /\ pc' \in {"put", "setbase"}) =>
          (pc' = "put") = (dataFiles[addr] # DesiredText)
     /\ (pc = "setbase" /\ pc' = "purge") =>
          baseSnapshots'[addr] = [data |-> sanitizeForJson(PushData),
                                  sha |-> ShaOf(DesiredText)]]_vars

\* ------------------------------------------------------------------------
\* UnionSpec: mergeRecords on collections of up to two records with distinct
\* ids, in either order
\* ------------------------------------------------------------------------
UnionRecordIds == {"p1", "p2"}
UnionVersions == {1, 2}

UnionRecordSet(id) ==
  { [id |-> id, version |-> v, updatedAt |-> "t1", updatedBy |-> Undef, deleted |-> d,
     name |-> "A", location |-> Undef] :
      v \in UnionVersions, d \in {Undef, JsTrue} }

\* collections in which ids are unique
UnionInputs ==
  {<<>>}
  \cup { <<rec>> : rec \in UNION { UnionRecordSet(id) : id \in UnionRecordIds } }
  \cup { <<x, y>> : x \in UnionRecordSet("p1"), y \in UnionRecordSet("p2") }
  \cup { <<y, x>> : x \in UnionRecordSet("p1"), y \in UnionRecordSet("p2") }

UnionInit ==
  /\ mBase \in UnionInputs
  /\ mLocal \in UnionInputs
  /\ mRemote \in UnionInputs
  /\ mResult = NotMerged
  /\ RequestIdle
  /\ UploadIdle
  /\ resetPc = "idle"
  /\ OrchInit
  /\ githubConfig = FALSE
  /\ reliable = FALSE

UnionSpec == UnionInit /\ [][MergeNext]_vars

\* the ids a collection holds
IdsOf(coll) == { coll[i].id : i \in 1..Len(coll) }

\* C38: the merged collection holds exactly one record for every id of the
\* union of base, local and remote, and no record with another id.
C38_OneRecordPerIdOfUnion ==
  mDone =>
    /\ IdsOf(mResult.records) = IdsOf(mBase) \cup IdsOf(mLocal) \cup IdsOf(mRemote)
    /\ \A i, j \in 1..Len(mResult.records) :
          mResult.records[i].id = mResult.records[j].id => i = j

\* C38 witness: p1 and p2 are both in local and in remote, in different
\* orders, and the result holds two records.
C38_TwoIdsOnBothSides ==
  /\ mDone
  /\ Len(mLocal) = 2 /\ Len(mRemote) = 2
  /\ mLocal[1].id # mRemote[1].id
  /\ Len(mResult.records) = 2

\* ------------------------------------------------------------------------
\* TwoWaySpec: the legacy two-way mergeRecords(local, remote)
\* (src/unnamed/part_008:6-27) on collections of up to two records with
\* distinct ids
\* ------------------------------------------------------------------------
TwoWayNames == {"A", "B"}

TwoWayRecordSet(id) ==
  { [id |-> id, updatedAt |-> u, name |-> n, deleted |-> d] :
      u \in Timestamps \cup {Undef}, n \in TwoWayNames, d \in {Undef, JsTrue} }

TwoWayInputs ==
  {<<>>}
  \cup { <<rec>> : rec \in UNION { TwoWayRecordSet(id) : id \in UnionRecordIds } }
  \cup { <<x, y>> : x \in TwoWayRecordSet("p1"), y \in TwoWayRecordSet("p2") }
  \cup { <<y, x>> : x \in TwoWayRecordSet("p1"), y \in TwoWayRecordSet("p2") }

\* map.set(rec.id, rec): a Map keeps the place of a key it already holds
MapSet(map, rec) ==
  IF \E j \in 1..Len(map) : map[j].id = rec.id
  THEN [j \in 1..Len(map) |-> IF map[j].id = rec.id THEN rec ELSE map[j]]
  ELSE Append(map, rec)

\* for (const r of remote) map.set(r.id, r)
RECURSIVE SetRemote(_, _, _)
SetRemote(map, remoteRecs, i) ==
  IF i > Len(remoteRecs) THEN map
  ELSE SetRemote(MapSet(map, remoteRecs[i]), remoteRecs, i + 1)

\* new Date(rec.updatedAt || 0).getTime()
TimeOrEpoch(rec) == IF rec.updatedAt = Undef THEN 0 ELSE DateParse(rec.updatedAt)

\* A comparison that lets local win a tie.
LocalReplacesOnTie(l, existing) == TimeOrEpoch(l) >= TimeOrEpoch(existing)

\* localTime > existingTime
LocalReplaces(l, existing) == TimeOrEpoch(l) > TimeOrEpoch(existing)

\* for (const l of local): set when the id is new or local is later
RECURSIVE MergeLocalInto(_, _, _)
MergeLocalInto(map, local, i) ==
  IF i > Len(local) THEN map
  ELSE LET existing == Find(map, local[i].id)
       IN MergeLocalInto(IF existing = NoRec \/ LocalReplaces(local[i], existing)
                         THEN MapSet(map, local[i]) ELSE map,
                         local, i + 1)

\* Array.from(map.values())
mergeRecordsTwoWay(local, remoteRecs) ==
  MergeLocalInto(SetRemote(<<>>, remoteRecs, 1), local, 1)

TwoWayInit ==
  /\ mBase = <<>>
  /\ mLocal \in TwoWayInputs
  /\ mRemote \in TwoWayInputs
  /\ mResult = NotMerged
  /\ RequestIdle
  /\ UploadIdle
  /\ resetPc = "idle"
  /\ OrchInit
  /\ githubConfig = FALSE
  /\ reliable = FALSE

\* the call returns its array (held in the records field of mResult)
DoMergeTwoWay ==
  /\ mResult = NotMerged
  /\ mResult' = [records |-> mergeRecordsTwoWay(mLocal, mRemote)]
  /\ UNCHANGED <<mBase, mLocal, mRemote, rqVars, upVars, resetPc, ovars>>

TwoWayNext == DoMergeTwoWay

TwoWaySpec == TwoWayInit /\ [][TwoWayNext]_vars

\* updatedAt x is strictly later than updatedAt y (a missing stamp is the
\* epoch)
StampLater(x, y) == <<x, y>> \in {<<"t2", "t1">>, <<"t1", Undef>>, <<"t2", Undef>>}

\* C39: the two-way merge returns one record per id of the union; an id on
\* one side keeps that side's record; an id on both sides gets the local
\* record exactly when local.updatedAt is strictly later, else the remote
\* record, whole (so a later tombstone stays deleted).
C39_TwoWayLastWriterWins ==
  mDone =>
    /\ IdsOf(mResult.records) = IdsOf(mLocal) \cup IdsOf(mRemote)
    /\ \A i, j \in 1..Len(mResult.records) :
          mResult.records[i].id = mResult.records[j].id => i = j
    /\ \A id \in IdsOf(mLocal) \cup IdsOf(mRemote) :
          LET l == Find(mLocal, id)
              r == Find(mRemote, id)
              out == Find(mResult.records, id)
          IN IF l = NoRec THEN out = r
             ELSE IF r = NoRec THEN out = l
             ELSE out = IF StampLater(l.updatedAt, r.updatedAt) THEN l ELSE r

\* C39 witness: local holds a tombstone of p1 stamped t2, remote the live p1
\* stamped t1, and the result holds the tombstone.
C39_LaterLocalTombstoneKept ==
  /\ mDone
  /\ Find(mLocal, "p1") # NoRec /\ Find(mRemote, "p1") # NoRec
  /\ Find(mLocal, "p1").deleted = JsTrue /\ Find(mLocal, "p1").updatedAt = "t2"
  /\ Find(mRemote, "p1").deleted = Undef /\ Find(mRemote, "p1").updatedAt = "t1"
  /\ Find(mResult.records, "p1") = Find(mLocal, "p1")

\* ------------------------------------------------------------------------
\* Claims about the post-push compaction (checked under Spec)
\* ------------------------------------------------------------------------

\* the step in which a push reaches purgeDeletedRecords
CompactionStep == pc # "purge" /\ pc' = "purge"

\* C33: the compaction that follows a push removes only tombstones from the
\* collection as it is when the push completes: every live record, those
\* created or changed while the push was scheduled or in flight included,
\* stays as it was.
C33_CompactionKeepsLaterMutations ==
  [][CompactionStep => warehouses' = PurgedWarehouses(warehouses)]_vars

\* the canonical text of the document built from the current collections:
\* the current identity's records that are not deleted
LocalDocText ==
  stableStringify(sanitizeForJson(WarehouseFile(WarehousesToPush(warehouses, CurrentUser))))

\* C34: with the remote configured, the status 'synced' and nothing
\* scheduled, running or waiting, the document of the local collections
\* equals BASE's under canonical serialization (stated for the states in
\* which a BASE exists).
C34_SyncedMeansLocalEqualsBase ==
  (githubConfig /\ syncStatus = "synced" /\ Quiescent /\ baseSnap # NoBase) =>
     LocalDocText = stableStringify(sanitizeForJson(baseSnap.data))

\* C37: once a response of the call is successful (2xx), the request is not
\* sent again, whatever rate-limit headers that response carries.
C37_SuccessfulRequestNotResent ==
  [][ResponseOk(rqResponse) => rqSent' = rqSent]_vars

\* the collections the running push took from its closure are those a pull on
\* login sets from the document now in the store, and nothing was mutated
PushOfPulledDocument ==
  /\ pc = "getremote"
  /\ mutCount = 0
  /\ capUser = addr
  /\ dataFiles[addr] \notin {Absent, CorruptText}
  /\ capW = NormalizedRemoteWarehouses(ParseJson(dataFiles[addr]).warehouses)

\* C35: a push of the collections a pull on login has set from the remote
\* document, with no local mutation in between, issues no write.
C35_PullThenPushWritesNothing ==
  [][PushOfPulledDocument => reqPuts' = reqPuts]_vars

\* a step of the user or of another device: a mutation of the collections, a
\* manual sync, a write of another device to the store
OutsideStep == LocalMutation \/ ManualSync \/ OtherDeviceWrite

\* no push is scheduled or running, nothing waits to be flushed, and the
\* status is synced
SettledSynced == Quiescent /\ syncStatus = "synced"

\* C36: when the network stays reachable, every request succeeds and from some
\* point on nothing is mutated (nor a sync requested by hand, nor the store
\* written by another device), the orchestrator executes finitely many pushes
\* and then stays synced with no push scheduled.
C36_PushesSettleWhenMutationsStop ==
  (reliable /\ online /\ githubConfig /\ <>[][~OutsideStep]_vars) => <>[]SettledSynced

\* ------------------------------------------------------------------------
\* SnapshotSpec: the orchestrator started with any of the values AsyncStorage
\* can hold under the BASE key of the current identity
\* ------------------------------------------------------------------------
SnapshotInit ==
  /\ FirstRender
  /\ Loaded
  /\ dataFiles = [i \in Identities |-> Absent]
  /\ \E stored \in StoredSnapshots :
        baseSnapshots = [i \in Identities |-> IF i = "local" THEN stored ELSE NoBase]
  /\ SideIdle

SnapshotSpec == SnapshotInit /\ [][Next]_vars

\* the stored value is not a snapshot of a document: its text does not parse,
\* or the data it yields lacks meta, warehouses or products
IllFormedSnapshot(stored) ==
  \/ stored = UnparsableSnapshot
  \/ /\ stored # NoBase
     /\ ~isWarehouseFile(IF "data" \in DOMAIN stored THEN stored.data ELSE stored)

\* the step in which the push's getBaseSnapshot resolves
SnapshotReadStep == pc = "getbase" /\ pc' # "getbase"

\* C32: when the push reads a stored value that is not a well-formed snapshot,
\* getBaseSnapshot returns absent and the push goes on to the upload as it
\* does with no BASE.
C32_IllFormedSnapshotReadsAbsent ==
  [][(SnapshotReadStep /\ IllFormedSnapshot(baseSnapshots[addr])) =>
        /\ getBaseSnapshot(baseSnapshots[addr]) = NoBase
        /\ pc' = "getremote"]_vars

\* ------------------------------------------------------------------------
\* DownloadSpec: the session of SessionSpec when the remote file of the user
\* holds content that the first parse of downloadData rejects
\* ------------------------------------------------------------------------
DownloadInit ==
  /\ SessionStart
  /\ dataFiles \in { f \in [Identities -> UNION { DamagedTexts(u) : u \in Users } \cup {Absent}] :
                       /\ f["local"] = Absent
                       /\ \A u \in Users : f[u] \in DamagedTexts(u) }

DownloadSpec == DownloadInit /\ [][SessionNext]_vars

\* the step in which the pull's downloadData settles
DownloadSettles == pullPc = "download" /\ pullPc' # "download"

\* the remote file holds content whose first parse or shape test fails
NeedsRepair(file) == file # Absent /\ ~ParsesToDocument(file)

\* C31: when the fetched content fails to parse or is no well-shaped document,
\* the fetch returns the document of the repaired content with the file's
\* token if the repaired content is a well-shaped document; otherwise it ends
\* in an error: it is not reported as absent, the status becomes error and
\* neither the collections nor BASE change.
C31_Step ==
  (DownloadSettles /\ NeedsRepair(dataFiles[pullAddr])) =>
     /\ pullPc' \in {"setbase", "failed"}
     /\ pullPc' = "setbase" =>
          /\ ParsesToDocument(Repaired(dataFiles[pullAddr]))
          /\ pullDoc' = [data |-> ParseJson(Repaired(dataFiles[pullAddr])),
                         sha |-> ShaOf(dataFiles[pullAddr]), owner |-> pullAddr]
     /\ ~ParsesToDocument(Repaired(dataFiles[pullAddr])) => pullPc' = "failed"
     /\ pullPc' = "failed" =>
          /\ syncStatus' = "error"
          /\ warehouses' = warehouses
          /\ baseSnapshots' = baseSnapshots

C31_DamagedContentRepairedOrError == [][C31_Step]_vars

====
